---------------------------- MODULE Spec2Model ----------------------------
(***************************************************************************)
(* A model of the trivia backend (backend/flaskr/__init__.py): the seven   *)
(* route handlers of create_app, the pagination helper and the registered  *)
(* error handlers, over the Question and Category tables.                  *)
(*                                                                         *)
(* One request is served at a time.  A view function (with its try /       *)
(* except / finally) is one step; when it raises, the exception is pending *)
(* (pc = "raised") until the registered error handler turns it into the    *)
(* final response in a second step.  The response is final at              *)
(* pc = "responded"; after_request sends it and the server is idle again.  *)
(*                                                                         *)
(* Python strings are sequences of one-character strings.  JSON values of  *)
(* a request body are tagged records [t, v].                               *)
(***************************************************************************)
EXTENDS Integers, Sequences, FiniteSets, TLC

VARIABLES
  questions,   \* the Question table, rows in storage order
  categories,  \* the Category table, rows in storage order
  nextId,      \* the next value of the Question id sequence
  pc,          \* "idle", "raised" (an exception is pending) or "responded"
  exc,         \* the HTTP code of the pending exception (0: none)
  handler,     \* the view function that served the current request
  request,     \* the inputs of the current request
  response,    \* the final response of the current request
  session,     \* the per-request database session
  deleted      \* ids whose DELETE has answered 200

vars == <<questions, categories, nextId, pc, exc, handler, request, response,
          session, deleted>>

(***************************************************************************)
(* Bounds of the model.                                                    *)
(***************************************************************************)
MaxId == 2

MaxTermLen == 2

MaxPage == 3

MaxSeed == 21

QUESTIONS_PER_PAGE == 10

Alphabet == {"a", "B", "%", "_"}

QuestionTexts == {<<"A", "b">>, <<"b">>}

AnswerTexts == {<<"a">>}

CategoryIds == {1, 2}

Difficulties == {1}

CategorySeeds == {<<>>, <<[id |-> 1, type |-> "Math"]>>}

None == "None"

(***************************************************************************)
(* Sequences and strings.                                                  *)
(***************************************************************************)
Min(a, b) == IF a < b THEN a ELSE b

Max(a, b) == IF a > b THEN a ELSE b

SeqsUpTo(S, n) == UNION {[1..k -> S] : k \in 0..n}

Ids(rows) == {rows[i].id : i \in 1..Len(rows)}

\* Python's seq[start:end], negative indices counted from the end.
PySlice(s, start, end) ==
  LET n == Len(s)
      lo == IF start < 0 THEN Max(n + start, 0) ELSE Min(start, n)
      hi == IF end < 0 THEN Max(n + end, 0) ELSE Min(end, n)
  IN IF lo < hi THEN SubSeq(s, lo + 1, hi) ELSE <<>>

Lower(c) == CASE c = "A" -> "a" [] c = "B" -> "b" [] OTHER -> c

(***************************************************************************)
(* JSON values of a request body and Python truthiness.                    *)
(***************************************************************************)
JAbsent == [t |-> "absent", v |-> 0]

JNull == [t |-> "null", v |-> 0]

JStr(s) == [t |-> "str", v |-> s]

JInt(n) == [t |-> "int", v |-> n]

\* body.get(key, None): an absent key reads as None.
Get(body, key) == IF body[key].t = "absent" THEN JNull ELSE body[key]

\* bool(value) for None, str and int.
Truthy(value) ==
  CASE value.t = "null" -> FALSE
    [] value.t = "str" -> value.v # <<>>
    [] value.t = "int" -> value.v # 0
    [] OTHER -> FALSE

(***************************************************************************)
(* The persistence layer (models.py): rows, format(), insert(), delete().  *)
(***************************************************************************)
\* Question.format(): the dict of the five columns.
Format(q) ==
  [id |-> q.id, question |-> q.question, answer |-> q.answer,
   category |-> q.category, difficulty |-> q.difficulty]

FormatAll(rows) == [i \in 1..Len(rows) |-> Format(rows[i])]

\* Question(question=..., answer=..., category=..., difficulty=...)
NewQuestion(body) ==
  [question |-> Get(body, "question"), answer |-> Get(body, "answer"),
   category |-> Get(body, "category"), difficulty |-> Get(body, "difficulty")]

\* question.insert(): the row gets the next id of the sequence and is stored
\* at storage position pos (the store promises no order without ORDER BY).
Insert(rows, pos, id, nq) ==
  LET row == [id |-> id, question |-> nq.question.v, answer |-> nq.answer.v,
              category |-> nq.category.v, difficulty |-> nq.difficulty.v]
  IN SubSeq(rows, 1, pos - 1) \o <<row>> \o SubSeq(rows, pos, Len(rows))

\* question.delete(): the row with the question's id leaves the table.
Delete(rows, q) == SelectSeq(rows, LAMBDA r : r.id # q.id)

\* Question.query.order_by(Question.id).all()
RECURSIVE OrderById(_)
OrderById(rows) ==
  IF rows = <<>> THEN <<>>
  ELSE LET m == CHOOSE i \in 1..Len(rows) :
                  \A j \in 1..Len(rows) : rows[i].id <= rows[j].id
       IN <<rows[m]>> \o
          OrderById(SubSeq(rows, 1, m - 1) \o SubSeq(rows, m + 1, Len(rows)))

(***************************************************************************)
(* The per-request database session.                                       *)
(***************************************************************************)
NewSession == [state |-> "unused", closes |-> 0]

\* the first query of a request acquires the session
Query(s) == [s EXCEPT !.state = "open"]

\* SessionClose with the close left out
SessionClose_Leak(s) == s

\* finally: db.session.close()
SessionClose(s) == [state |-> "closed", closes |-> s.closes + 1]

(***************************************************************************)
(* The outcome of a view function, and how it leaves the request.          *)
(***************************************************************************)
NoRequest == [route |-> "none"]

NoResponse == [status |-> 0, body |-> [success |-> FALSE, message |-> ""]]

Ok(status, body) == [exc |-> 0, response |-> [status |-> status, body |-> body]]

\* abort(code), or an exception no handler is registered for (code 500)
Raise(code) == [exc |-> code, response |-> NoResponse]

Leave(outcome) ==
  /\ exc' = outcome.exc
  /\ pc' = IF outcome.exc = 0 THEN "responded" ELSE "raised"
  /\ response' = outcome.response

(***************************************************************************)
(* paginate_quetions                                                       *)
(***************************************************************************)
PageArgs == {<<>>} \cup {<<p>> : p \in (0 - MaxPage)..MaxPage}

\* request.args.get('page', 1, type=int)
PageOf(args) == IF args = <<>> THEN 1 ELSE args[1]

\* paginate_quetions with the page counted from zero
paginate_quetions_ZeroBased(args, selection) ==
  LET page == PageOf(args)
      start == page * QUESTIONS_PER_PAGE
      end == start + QUESTIONS_PER_PAGE
      qs == FormatAll(selection)
  IN PySlice(qs, start, end)

paginate_quetions(args, selection) ==
  LET page == PageOf(args)
      start == (page - 1) * QUESTIONS_PER_PAGE
      end == start + QUESTIONS_PER_PAGE
      qs == FormatAll(selection)
  IN PySlice(qs, start, end)

(***************************************************************************)
(* GET /api/categories                                                     *)
(***************************************************************************)
retrieve_categories_try(cats) ==
  IF cats = <<>> THEN Raise(404)
  ELSE Ok(200, [success |-> TRUE,
                categories |-> [i \in 1..Len(cats) |-> cats[i].type]])

retrieve_categories ==
  /\ pc = "idle"
  /\ Leave(retrieve_categories_try(categories))
  /\ handler' = "retrieve_categories"
  /\ request' = [route |-> "GET /api/categories"]
  /\ session' = SessionClose(Query(NewSession))
  /\ UNCHANGED <<questions, categories, nextId, deleted>>

(***************************************************************************)
(* GET /api/questions                                                      *)
(***************************************************************************)
\* {category.id: category.type for category in Category.query.all()}
CategoryMap(cats) ==
  [c \in {cats[i].id : i \in 1..Len(cats)} |->
     (CHOOSE r \in {cats[i] : i \in 1..Len(cats)} : r.id = c).type]

get_questions_try(rows, cats, args) ==
  LET selection == OrderById(rows)
      current_questions == paginate_quetions(args, selection)
  IN IF Len(current_questions) = 0 THEN Raise(404)
     ELSE Ok(200, [success |-> TRUE,
                   questions |-> current_questions,
                   categories |-> CategoryMap(cats),
                   total_questions |-> Len(selection),
                   current_category |-> None])

get_questions ==
  /\ pc = "idle"
  /\ \E args \in PageArgs :
       /\ Leave(get_questions_try(questions, categories, args))
       /\ request' = [route |-> "GET /api/questions", page |-> args]
  /\ handler' = "get_questions"
  /\ session' = SessionClose(Query(NewSession))
  /\ UNCHANGED <<questions, categories, nextId, deleted>>

(***************************************************************************)
(* DELETE /api/questions/<int:question_id>                                 *)
(***************************************************************************)
PathQuestionIds == 1..MaxId

\* OneOrNone with the filter on the id left out
OneOrNone_Unfiltered(rows, question_id) ==
  IF rows = <<>> THEN <<>> ELSE <<Head(rows)>>

\* Question.query.filter(Question.id == question_id).one_or_none():
\* <<>> for None, <<row>> for the row (the id is a primary key).
OneOrNone(rows, question_id) == SelectSeq(rows, LAMBDA r : r.id = question_id)

delete_question_try(rows, question_id) ==
  IF OneOrNone(rows, question_id) = <<>> THEN Raise(404)
  ELSE Ok(200, [success |-> TRUE, message |-> "Question successfully deleted"])

delete_question_rows(rows, question_id) ==
  LET question == OneOrNone(rows, question_id)
  IN IF question = <<>> THEN rows ELSE Delete(rows, question[1])

delete_question ==
  /\ pc = "idle"
  /\ \E question_id \in PathQuestionIds :
       LET outcome == delete_question_try(questions, question_id)
       IN /\ Leave(outcome)
          /\ questions' = delete_question_rows(questions, question_id)
          /\ deleted' = IF outcome.exc = 0 THEN deleted \cup {question_id}
                        ELSE deleted
          /\ request' = [route |-> "DELETE /api/questions/<id>",
                         question_id |-> question_id]
  /\ handler' = "delete_question"
  /\ session' = SessionClose(Query(NewSession))
  /\ UNCHANGED <<categories, nextId>>

(***************************************************************************)
(* POST /api/questions                                                     *)
(***************************************************************************)
TextValues(texts) == {JAbsent, JNull, JStr(<<>>)} \cup {JStr(s) : s \in texts}

IntValues(ints) == {JAbsent, JNull, JInt(0)} \cup {JInt(n) : n \in ints}

Bodies ==
  [question : TextValues(QuestionTexts), answer : TextValues(AnswerTexts),
   category : IntValues(CategoryIds), difficulty : IntValues(Difficulties)]

EmptyBody ==
  [question |-> JAbsent, answer |-> JAbsent, category |-> JAbsent,
   difficulty |-> JAbsent]

\* new_question.question and new_question.answer and
\* new_question.category and new_question.difficulty
Valid(nq) ==
  Truthy(nq.question) /\ Truthy(nq.answer) /\ Truthy(nq.category)
    /\ Truthy(nq.difficulty)

\* hasBody = FALSE: request.get_json() is None, and body.get raises.
create_question_try(hasBody, body) ==
  IF ~hasBody THEN Raise(500)
  ELSE IF ~Valid(NewQuestion(body)) THEN Raise(400)
  ELSE Ok(201, [success |-> TRUE, message |-> "Question successfully added"])

\* create_question_rows with insert() ahead of the check of category and
\* difficulty
create_question_rows_InsertFirst(rows, pos, id, hasBody, body) ==
  IF hasBody /\ Truthy(NewQuestion(body).question)
       /\ Truthy(NewQuestion(body).answer)
  THEN Insert(rows, pos, id, NewQuestion(body))
  ELSE rows

create_question_rows(rows, pos, id, hasBody, body) ==
  IF hasBody /\ Valid(NewQuestion(body))
  THEN Insert(rows, pos, id, NewQuestion(body))
  ELSE rows

create_question ==
  /\ pc = "idle"
  /\ \E hasBody \in BOOLEAN, body \in Bodies, pos \in 1..(Len(questions) + 1) :
       LET outcome == create_question_try(hasBody, body)
           rows == create_question_rows(questions, pos, nextId, hasBody, body)
       IN /\ hasBody \/ body = EmptyBody
          /\ rows # questions \/ pos = 1
          /\ rows # questions => nextId <= MaxId
          /\ Leave(outcome)
          /\ questions' = rows
          /\ nextId' = IF rows # questions THEN nextId + 1 ELSE nextId
          /\ request' = [route |-> "POST /api/questions", hasBody |-> hasBody,
                         body |-> body]
          /\ session' = SessionClose(IF hasBody /\ outcome.exc = 0
                                     THEN Query(NewSession) ELSE NewSession)
  /\ handler' = "create_question"
  /\ UNCHANGED <<categories, deleted>>

(***************************************************************************)
(* POST /api/questions/search                                              *)
(***************************************************************************)
SearchTerms == SeqsUpTo(Alphabet, MaxTermLen)

SearchTermValues == {JAbsent, JNull} \cup {JStr(s) : s \in SearchTerms}

\* SQL LIKE with the case folded: % is any run of characters, _ any one.
RECURSIVE LikeMatch(_, _)
LikeMatch(text, pattern) ==
  IF pattern = <<>> THEN text = <<>>
  ELSE IF Head(pattern) = "%"
       THEN \/ LikeMatch(text, Tail(pattern))
            \/ text # <<>> /\ LikeMatch(Tail(text), pattern)
       ELSE /\ text # <<>>
            /\ Head(pattern) = "_" \/ Lower(Head(pattern)) = Lower(Head(text))
            /\ LikeMatch(Tail(text), Tail(pattern))

\* Question.question.ilike("%" + search_term + "%")
ilike(text, search_term) == LikeMatch(text, <<"%">> \o search_term \o <<"%">>)

\* Question.query.filter(...ilike(...)).all()
SearchRows(rows, search_term) ==
  SelectSeq(rows, LAMBDA q : ilike(q.question, search_term))

\* hasBody = FALSE: get_json() is None and .get raises; a searchTerm that is
\* absent or null makes "%" + None raise.
search_questions_try(rows, hasBody, term, args) ==
  IF ~hasBody \/ Get([searchTerm |-> term], "searchTerm").t # "str"
  THEN Raise(500)
  ELSE LET all_questions == SearchRows(rows, term.v)
           current_questions == paginate_quetions(args, all_questions)
       IN IF current_questions = <<>> THEN Raise(404)
          ELSE Ok(200, [success |-> TRUE,
                        questions |-> current_questions,
                        total_questions |-> Len(all_questions),
                        current_category |-> None])

search_questions ==
  /\ pc = "idle"
  /\ \E hasBody \in BOOLEAN, term \in SearchTermValues, args \in PageArgs :
       LET outcome == search_questions_try(questions, hasBody, term, args)
       IN /\ hasBody \/ term = JAbsent
          /\ Leave(outcome)
          /\ request' = [route |-> "POST /api/questions/search",
                         hasBody |-> hasBody, searchTerm |-> term,
                         page |-> args]
          /\ session' = SessionClose(IF outcome.exc = 500 THEN NewSession
                                     ELSE Query(NewSession))
  /\ handler' = "search_questions"
  /\ UNCHANGED <<questions, categories, nextId, deleted>>

(***************************************************************************)
(* GET /api/categories/<int:category_id>/questions                         *)
(***************************************************************************)
PathCategoryIds == {0} \cup CategoryIds

\* FilterByCategory with the filter left out
FilterByCategory_All(rows, category_id) == rows

\* Question.query.filter_by(category=category_id).all()
FilterByCategory(rows, category_id) ==
  SelectSeq(rows, LAMBDA q : q.category = category_id)

retrieve_questions_by_category_try(rows, category_id, args) ==
  LET selection == FilterByCategory(rows, category_id)
      current_questions == paginate_quetions(args, selection)
  IN IF current_questions = <<>> THEN Raise(404)
     ELSE Ok(200, [success |-> TRUE,
                   questions |-> current_questions,
                   total_questions |-> Len(selection),
                   current_category |-> category_id])

retrieve_questions_by_category ==
  /\ pc = "idle"
  /\ \E category_id \in PathCategoryIds, args \in PageArgs :
       /\ Leave(retrieve_questions_by_category_try(questions, category_id, args))
       /\ request' = [route |-> "GET /api/categories/<id>/questions",
                      category_id |-> category_id, page |-> args]
  /\ handler' = "retrieve_questions_by_category"
  /\ session' = SessionClose(Query(NewSession))
  /\ UNCHANGED <<questions, categories, nextId, deleted>>

(***************************************************************************)
(* POST /api/quizzes                                                       *)
(***************************************************************************)
\* previous_questions: <<>> when the key is absent, else <<the set of ids>>
PreviousQuestionsValues == {<<>>} \cup {<<S>> : S \in SUBSET (1..MaxId)}

\* quiz_category: <<>> when the key is absent, else <<its id>>, the id a JSON
\* number or a JSON string
QuizCategoryValues ==
  {<<>>} \cup {<<JInt(c)>> : c \in PathCategoryIds}
         \cup {<<JStr(<<d>>)>> : d \in {"0", "2", "x"}}

Digits == <<"0", "1", "2", "3", "4", "5", "6", "7", "8", "9">>

DigitValue(c) == (CHOOSE k \in 1..Len(Digits) : Digits[k] = c) - 1

RECURSIVE Decimal(_)
Decimal(s) ==
  IF s = <<>> THEN 0
  ELSE Decimal(SubSeq(s, 1, Len(s) - 1)) * 10 + DigitValue(s[Len(s)])

\* int(value) succeeds: an integer, or a string of decimal digits
CanInt(value) ==
  \/ value.t = "int"
  \/ /\ value.t = "str"
     /\ value.v # <<>>
     /\ \A k \in 1..Len(value.v) : \E d \in 1..Len(Digits) : Digits[d] = value.v[k]

\* int(value)
IntOf(value) == IF value.t = "int" THEN value.v ELSE Decimal(value.v)

\* QuizCandidates with the notin_ filter left out
QuizCandidates_NoExclusion(rows, previous_questions, quiz_category_id) ==
  IF quiz_category_id # 0
  THEN SelectSeq(rows, LAMBDA q : q.category = quiz_category_id)
  ELSE rows

\* Question.query.filter(Question.id.notin_(previous_questions)), then
\* filter_by(category=quiz_category_id) when quiz_category_id is truthy
QuizCandidates(rows, previous_questions, quiz_category_id) ==
  LET unseen == SelectSeq(rows, LAMBDA q : q.id \notin previous_questions)
  IN IF quiz_category_id # 0
     THEN SelectSeq(unseen, LAMBDA q : q.category = quiz_category_id)
     ELSE unseen

\* FirstFormatted answering a null question when no row is left
FirstFormatted_NullQuestion(candidates) ==
  IF candidates = <<>> THEN Ok(200, [success |-> TRUE, question |-> None])
  ELSE Ok(200, [success |-> TRUE, question |-> Format(Head(candidates))])

\* question.first().format(): first() of no rows is None, and None.format()
\* raises.
FirstFormatted(candidates) ==
  IF candidates = <<>> THEN Raise(500)
  ELSE Ok(200, [success |-> TRUE, question |-> Format(Head(candidates))])

\* the request reaches the query: hasBody = FALSE has get_json() None and
\* data.get raises; an absent quiz_category makes None["id"] raise; an id
\* that is no number makes int() raise; an absent previous_questions makes
\* notin_(None) raise.
ReachesQuery(hasBody, prev, cat) ==
  hasBody /\ cat # <<>> /\ CanInt(cat[1]) /\ prev # <<>>

get_quizzes_try(rows, hasBody, prev, cat) ==
  IF ~ReachesQuery(hasBody, prev, cat) THEN Raise(500)
  ELSE FirstFormatted(QuizCandidates(rows, prev[1], IntOf(cat[1])))

get_quizzes ==
  /\ pc = "idle"
  /\ \E hasBody \in BOOLEAN, prev \in PreviousQuestionsValues,
        cat \in QuizCategoryValues :
       LET outcome == get_quizzes_try(questions, hasBody, prev, cat)
       IN /\ hasBody \/ (prev = <<>> /\ cat = <<>>)
          /\ Leave(outcome)
          /\ request' = [route |-> "POST /api/quizzes", hasBody |-> hasBody,
                         previous_questions |-> prev, quiz_category |-> cat]
          /\ session' = SessionClose(IF ReachesQuery(hasBody, prev, cat)
                                     THEN Query(NewSession) ELSE NewSession)
  /\ handler' = "get_quizzes"
  /\ UNCHANGED <<questions, categories, nextId, deleted>>

(***************************************************************************)
(* A request whose verb no route accepts: the framework raises 405 and no  *)
(* view function runs.                                                     *)
(***************************************************************************)
method_not_allowed ==
  /\ pc = "idle"
  /\ Leave(Raise(405))
  /\ handler' = "none"
  /\ request' = [route |-> "GET /api/quizzes"]
  /\ session' = NewSession
  /\ UNCHANGED <<questions, categories, nextId, deleted>>

(***************************************************************************)
(* The registered error handlers.                                          *)
(***************************************************************************)
ErrorResponse(code, message) ==
  [status |-> code, body |-> [success |-> FALSE, message |-> message]]

HandleError(code, message) ==
  /\ pc = "raised"
  /\ exc = code
  /\ response' = ErrorResponse(code, message)
  /\ pc' = "responded"
  /\ exc' = 0
  /\ UNCHANGED <<questions, categories, nextId, handler, request, session,
                 deleted>>

errorhandler_400 == HandleError(400, "Bad Request")

errorhandler_404 == HandleError(404, "Resource not found")

errorhandler_405 == HandleError(405, "Method not allowed")

errorhandler_500 == HandleError(500, "Internal server error")

(***************************************************************************)
(* after_request: the response leaves with the CORS headers added; the     *)
(* request, its response and its session are gone and the server is idle.  *)
(***************************************************************************)
after_request ==
  /\ pc = "responded"
  /\ pc' = "idle"
  /\ handler' = "none"
  /\ request' = NoRequest
  /\ response' = NoResponse
  /\ session' = NewSession
  /\ UNCHANGED <<questions, categories, nextId, exc, deleted>>

(***************************************************************************)
(* The specifications.                                                     *)
(***************************************************************************)
InitRequest ==
  /\ pc = "idle"
  /\ exc = 0
  /\ handler = "none"
  /\ request = NoRequest
  /\ response = NoResponse
  /\ session = NewSession
  /\ deleted = {}

\* An empty Question table and a seeded Category table.
Init ==
  /\ questions = <<>>
  /\ categories \in CategorySeeds
  /\ nextId = 1
  /\ InitRequest

Next ==
  \/ retrieve_categories
  \/ get_questions
  \/ delete_question
  \/ create_question
  \/ search_questions
  \/ retrieve_questions_by_category
  \/ get_quizzes
  \/ method_not_allowed
  \/ errorhandler_400
  \/ errorhandler_404
  \/ errorhandler_405
  \/ errorhandler_500
  \/ after_request

Spec == Init /\ [][Next]_vars

\* A Question table seeded with n rows, ids 1..n, stored in ascending or
\* descending id order; the listing endpoints only.
SeedRow(i) ==
  [id |-> i,
   question |-> IF i % 3 = 0 THEN <<"b">> ELSE <<"A", "b">>,
   answer |-> <<"a">>,
   category |-> 1 + (i % 2),
   difficulty |-> 1]

Seed(n, ascending) ==
  [i \in 1..n |-> IF ascending THEN SeedRow(i) ELSE SeedRow(n + 1 - i)]

InitPage ==
  /\ \E n \in 0..MaxSeed, ascending \in BOOLEAN :
       /\ questions = Seed(n, ascending)
       /\ nextId = n + 1
  /\ categories \in CategorySeeds
  /\ InitRequest

NextPage ==
  \/ get_questions
  \/ search_questions
  \/ retrieve_questions_by_category
  \/ errorhandler_404
  \/ errorhandler_500
  \/ after_request

SpecPage == InitPage /\ [][NextPage]_vars

(***************************************************************************)
(* Vocabulary of the properties.                                           *)
(***************************************************************************)
ViewHandlers ==
  {"retrieve_categories", "get_questions", "delete_question",
   "create_question", "search_questions", "retrieve_questions_by_category",
   "get_quizzes"}

ListHandlers ==
  {"get_questions", "search_questions", "retrieve_questions_by_category"}

\* the current request was served by view h and its response is final
Served(h) == pc = "responded" /\ handler = h

\* a step in which view h runs
Runs(h) == pc = "idle" /\ handler' = h

Range(s) == {s[i] : i \in 1..Len(s)}

BadRequest == ErrorResponse(400, "Bad Request")

NotFound == ErrorResponse(404, "Resource not found")

InternalServerError == ErrorResponse(500, "Internal server error")

\* the questions a final response carries
ResponseQuestions ==
  IF pc = "responded" /\ response.status = 200 /\ handler \in ListHandlers
  THEN Range(response.body.questions)
  ELSE IF pc = "responded" /\ response.status = 200 /\ handler = "get_quizzes"
  THEN {response.body.question}
  ELSE {}

\* the term occurs in the text as a literal substring, case ignored
ContainsIgnoringCase(text, term) ==
  \E k \in 0..(Len(text) - Len(term)) :
    \A j \in 1..Len(term) : Lower(text[k + j]) = Lower(term[j])

\* ceil(n / QUESTIONS_PER_PAGE)
LastPage(n) == (n + QUESTIONS_PER_PAGE - 1) \div QUESTIONS_PER_PAGE

\* the rows in ascending id order, by rank
ByRank(rows) ==
  [k \in 1..Len(rows) |->
     CHOOSE r \in Range(rows) :
       Cardinality({x \in Range(rows) : x.id < r.id}) = k - 1]

(***************************************************************************)
(* C1.  A POST /questions request in which one of question, answer,        *)
(* category, difficulty is absent, null, empty or zero is answered         *)
(* 400 "Bad Request", and the Question table is as it was before.          *)
(***************************************************************************)
MissingField(body) ==
  \E key \in {"question", "answer", "category", "difficulty"} :
    ~Truthy(Get(body, key))

C1_MissingFieldIsBadRequest ==
  /\ [](Served("create_question") /\ MissingField(request.body)
          => response = BadRequest)
  /\ [][(Runs("create_question") /\ MissingField(request'.body))
          => questions' = questions]_vars

(***************************************************************************)
(* C2.  DELETE /questions/{id} of a stored id answers 200 and removes      *)
(* exactly that row, every other row unchanged; from then on no response   *)
(* carries a question with that id, and another DELETE of the id raises    *)
(* 404, answered "Resource not found".                                     *)
(***************************************************************************)
C2_DeletedStaysDeleted ==
  /\ [][(Runs("delete_question") /\ request'.question_id \in Ids(questions))
          => /\ pc' = "responded"
             /\ response'.status = 200
             /\ questions' =
                  SelectSeq(questions, LAMBDA r : r.id # request'.question_id)
             /\ Len(questions') = Len(questions) - 1]_vars
  /\ [](\A q \in ResponseQuestions : q.id \notin deleted)
  /\ [](deleted \cap Ids(questions) = {})
  /\ [][(Runs("delete_question") /\ request'.question_id \in deleted)
          => pc' = "raised" /\ exc' = 404 /\ questions' = questions]_vars
  /\ [](Served("delete_question") /\ response.status # 200
          => response = NotFound)

\* a DELETE of an id deleted earlier has been answered 404 while another
\* question, created after the deletion, is stored
C2_Witness ==
  /\ Served("delete_question")
  /\ response = NotFound
  /\ request.question_id \in deleted
  /\ questions # <<>>

(***************************************************************************)
(* C3.  A successful POST /quizzes response never carries a question whose *)
(* id is in previous_questions, nor, when the quiz_category id is not 0, a *)
(* question of another category.                                           *)
(***************************************************************************)
QuizCategoryId == IntOf(request.quiz_category[1])

C3_QuizRespectsExclusions ==
  Served("get_quizzes") /\ response.status = 200
    => /\ response.body.question.id \notin request.previous_questions[1]
       /\ QuizCategoryId # 0
            => response.body.question.category = QuizCategoryId

\* a quiz answered with a question while an excluded question and the category
\* filter were both in play
C3_Witness ==
  /\ Served("get_quizzes")
  /\ response.status = 200
  /\ QuizCategoryId # 0
  /\ \E r \in Range(questions) : r.id \in request.previous_questions[1]

(***************************************************************************)
(* C4.  POST /questions/search matches exactly the questions whose text    *)
(* contains the term as a literal substring, case ignored: the questions   *)
(* of a 200 response all contain it and total_questions counts the stored  *)
(* questions that contain it; a term no question's text contains is        *)
(* answered 404.                                                           *)
(***************************************************************************)
C4_SearchIsLiteralSubstring ==
  Served("search_questions") /\ request.hasBody /\ request.searchTerm.t = "str"
    => LET term == request.searchTerm.v
           containing ==
             SelectSeq(questions, LAMBDA q : ContainsIgnoringCase(q.question, term))
       IN /\ containing = <<>> => response = NotFound
          /\ response.status = 200
               => /\ \A q \in Range(response.body.questions) :
                       ContainsIgnoringCase(q.question, term)
                  /\ response.body.total_questions = Len(containing)

(***************************************************************************)
(* C5.  For a page number p <= 0 or beyond the last page,                  *)
(* p > ceil(n/10) for n stored questions, GET /questions,                  *)
(* POST /questions/search and GET /categories/{id}/questions answer 404    *)
(* and return no question.                                                 *)
(***************************************************************************)
WellFormed ==
  handler = "search_questions"
    => request.hasBody /\ request.searchTerm.t = "str"

C5_OutOfRangePageIsNotFound ==
  pc = "responded" /\ handler \in ListHandlers /\ WellFormed
    /\ (PageOf(request.page) <= 0
          \/ PageOf(request.page) > LastPage(Len(questions)))
    => response = NotFound

(***************************************************************************)
(* C6.  For n stored questions and a page p in 1..ceil(n/10),              *)
(* GET /questions?page=p answers 200 with the questions at positions       *)
(* (p-1)*10 up to, excluding, p*10 of the table in ascending id order (at  *)
(* most 10), total_questions = n and current_category null; the pages      *)
(* 1..ceil(n/10) joined are the whole table in that order.                 *)
(***************************************************************************)
PageSlice(rows, p) ==
  LET sorted == ByRank(rows)
      first == (p - 1) * QUESTIONS_PER_PAGE + 1
      last == Min(p * QUESTIONS_PER_PAGE, Len(rows))
  IN [k \in 1..(last - first + 1) |-> Format(sorted[first + k - 1])]

RECURSIVE JoinPages(_, _, _)
JoinPages(rows, from, to) ==
  IF from > to THEN <<>>
  ELSE paginate_quetions(<<from>>, OrderById(rows))
         \o JoinPages(rows, from + 1, to)

C6_PageIsSliceOfIdOrder ==
  /\ Served("get_questions")
       /\ PageOf(request.page) \in 1..LastPage(Len(questions))
       => /\ response.status = 200
          /\ response.body.questions = PageSlice(questions, PageOf(request.page))
          /\ Len(response.body.questions) <= QUESTIONS_PER_PAGE
          /\ response.body.total_questions = Len(questions)
          /\ response.body.current_category = None
  /\ JoinPages(questions, 1, LastPage(Len(questions)))
       = [k \in 1..Len(questions) |-> Format(ByRank(questions)[k])]

\* the second page of a table of more than ten questions that is not stored
\* in id order has been served
C6_Witness ==
  /\ Served("get_questions")
  /\ response.status = 200
  /\ PageOf(request.page) = 2
  /\ questions[1].id > questions[2].id

(***************************************************************************)
(* C7.  A successful GET /categories/{c}/questions carries only questions  *)
(* of category c, total_questions is the number of stored questions of     *)
(* category c and current_category is c; when no stored question has       *)
(* category c, with or without a Category row of id c, the answer is 404.  *)
(***************************************************************************)
OfCategory(c) == {i \in 1..Len(questions) : questions[i].category = c}

C7_CategoryListing ==
  Served("retrieve_questions_by_category")
    => LET c == request.category_id
       IN /\ response.status = 200
               => /\ \A q \in Range(response.body.questions) : q.category = c
                  /\ response.body.total_questions = Cardinality(OfCategory(c))
                  /\ response.body.current_category = c
          /\ OfCategory(c) = {} => response = NotFound

\* a category without a Category row has been listed while a question of
\* another category is stored
C7_Witness ==
  /\ Served("retrieve_questions_by_category")
  /\ response.status = 200
  /\ \A r \in Range(categories) : r.id # request.category_id
  /\ \E r \in Range(questions) : r.category # request.category_id

(***************************************************************************)
(* C8.  A POST /quizzes request for which no candidate remains (every      *)
(* stored question is excluded or of another category, or the table is     *)
(* empty) is never answered with success: it raises, and is answered 500   *)
(* "Internal server error".                                                *)
(***************************************************************************)
NoCandidate ==
  /\ request.hasBody
  /\ request.previous_questions # <<>>
  /\ request.quiz_category # <<>>
  /\ CanInt(request.quiz_category[1])
  /\ \A r \in Range(questions) :
       \/ r.id \in request.previous_questions[1]
       \/ QuizCategoryId # 0 /\ r.category # QuizCategoryId

C8_NoCandidateIsServerError ==
  handler = "get_quizzes" /\ NoCandidate
    => \/ pc = "raised" /\ exc = 500
       \/ pc = "responded" /\ response = InternalServerError

\* every stored question was excluded and the answer is the 500 response
C8_Witness ==
  /\ Served("get_quizzes")
  /\ NoCandidate
  /\ questions # <<>>
  /\ response = InternalServerError

(***************************************************************************)
(* C9.  The Question table changes only by a successful POST /questions,   *)
(* which adds exactly one row holding the four given fields, and by a      *)
(* successful DELETE /questions/{id}, which removes exactly one row; every *)
(* other request, and every request that raises, leaves it unchanged; no   *)
(* request changes the Category table or a field of a stored question.     *)
(***************************************************************************)
AddsOneRow ==
  /\ Runs("create_question")
  /\ pc' = "responded"
  /\ response'.status = 201
  /\ \E pos \in 1..Len(questions') :
       /\ questions'[pos] =
            [id |-> questions'[pos].id,
             question |-> request'.body.question.v,
             answer |-> request'.body.answer.v,
             category |-> request'.body.category.v,
             difficulty |-> request'.body.difficulty.v]
       /\ questions'[pos].id \notin Ids(questions)
       /\ questions =
            SubSeq(questions', 1, pos - 1)
              \o SubSeq(questions', pos + 1, Len(questions'))

RemovesOneRow ==
  /\ Runs("delete_question")
  /\ pc' = "responded"
  /\ response'.status = 200
  /\ Len(questions') = Len(questions) - 1
  /\ \E pos \in 1..Len(questions) :
       questions' =
         SubSeq(questions, 1, pos - 1) \o SubSeq(questions, pos + 1, Len(questions))

C9_OnlyCreateAndDeleteWrite ==
  [][/\ categories' = categories
     /\ questions' # questions => AddsOneRow \/ RemovesOneRow
     /\ pc' = "responded" /\ handler' = "create_question"
          /\ response'.status = 201 => AddsOneRow
     /\ pc' = "responded" /\ handler' = "delete_question"
          /\ response'.status = 200 => RemovesOneRow
     /\ pc' = "raised" \/ pc = "raised" => questions' = questions]_vars

\* a question has been created after another one was deleted
C9_Witness ==
  /\ Served("create_question")
  /\ response.status = 201
  /\ deleted # {}

(***************************************************************************)
(* C10.  Whatever way a view function is left (a response, an aborted 400  *)
(* or 404, an unexpected fault), the request's session has been closed     *)
(* exactly once, and already when the exception is still pending, before   *)
(* the error handler builds the final response.                            *)
(***************************************************************************)
C10_SessionClosedOnce ==
  handler \in ViewHandlers /\ pc \in {"raised", "responded"}
    => session.state = "closed" /\ session.closes = 1

\* the quiz fault is pending, its session already closed
C10_Witness ==
  /\ pc = "raised"
  /\ exc = 500
  /\ handler = "get_quizzes"
  /\ NoCandidate
  /\ questions # <<>>
  /\ session.state = "closed"
  /\ session.closes = 1

=============================================================================
